---------------------------- MODULE Spec2Model ----------------------------
(***************************************************************************)
(* Model of fetch_temis_forecast.py: the UV-index fetcher and merger.      *)
(*                                                                         *)
(* Text is modelled as sequences of one-character strings, so that         *)
(* tokenising, slicing, int()/float() parsing, key concatenation and       *)
(* line formatting are computed as the code computes them.                 *)
(***************************************************************************)
EXTENDS Integers, Sequences, FiniteSets, TLC

VARIABLES
    pc,                  \* position of the main script
    remote,              \* what the two servers answer (transport result and content)
    target,              \* <<target_lat, target_lon>> handed to process_netcdf_data
    nearest,             \* process_netcdf_data: the grid point found
    existing_file,       \* EXISTING_DATA_FILENAME on disk
    output_file,         \* OUTPUT_FILENAME on disk
    netcdf_file,         \* LOCAL_NETCDF_FILENAME on disk
    temp_rivm_files,     \* temp_rivm_ZonkrachtRIVM<year>.txt on disk, per year
    all_data_to_process, \* main: records collected from the sources
    year_idx,            \* main: index into HISTORICAL_YEARS_TO_FETCH
    data_to_add,         \* format_and_save_data: its first argument
    all_data_records,    \* format_and_save_data: the merged collection
    processed_keys,      \* format_and_save_data: keys seen so far
    ret,                 \* value returned by the last function called
    source_results,      \* per source, in order: what it returned
    run,                 \* how many times the script has been started
    prev_records         \* the records written by the previous run

vars == <<pc, remote, target, nearest, existing_file, output_file, netcdf_file, temp_rivm_files,
          all_data_to_process, year_idx, data_to_add, all_data_records,
          processed_keys, ret, source_results, run, prev_records>>

-----------------------------------------------------------------------------
(* Bounds of the model *)

MaxYearLines == 3
MaxExistingLines == 2
MaxNewRecords == 2
MaxAxis == 2
MaxCoord == 2
MaxTimeSteps == 3

-----------------------------------------------------------------------------
(* Python values *)

None == [none |-> TRUE]
Absent == [exists |-> FALSE]
File(c) == [exists |-> TRUE, content |-> c]
\* A server's answer: the request fails, or it delivers a body, which may be
\* one the reader cannot decode
Failed == [ok |-> FALSE, readable |-> FALSE, content |-> <<>>]
Served(c) == [ok |-> TRUE, readable |-> TRUE, content |-> c]
Undecodable == [ok |-> TRUE, readable |-> FALSE, content |-> <<>>]

Min(a, b) == IF a < b THEN a ELSE b

RECURSIVE Pow10(_)
Pow10(n) == IF n <= 0 THEN 1 ELSE 10 * Pow10(n - 1)

-----------------------------------------------------------------------------
(* Characters and strings *)

WhiteSpace == {" ", "\t"}
DigitChars == <<"0", "1", "2", "3", "4", "5", "6", "7", "8", "9">>
UpperChars == <<"A", "B", "C", "D", "E", "F", "G", "H", "I", "J", "K", "L", "M",
                "N", "O", "P", "Q", "R", "S", "T", "U", "V", "W", "X", "Y", "Z">>
LowerChars == <<"a", "b", "c", "d", "e", "f", "g", "h", "i", "j", "k", "l", "m",
                "n", "o", "p", "q", "r", "s", "t", "u", "v", "w", "x", "y", "z">>

IsDigit(c) == \E i \in 1..10 : DigitChars[i] = c
DigitVal(c) == (CHOOSE i \in 1..10 : DigitChars[i] = c) - 1

\* str.lower()
LowerChar(c) ==
    IF \E i \in 1..26 : UpperChars[i] = c
    THEN LowerChars[CHOOSE i \in 1..26 : UpperChars[i] = c]
    ELSE c
Lower(s) == [i \in 1..Len(s) |-> LowerChar(s[i])]

\* s[a:b] with 0 <= a <= b
Slice(s, a, b) == SubSeq(s, a + 1, Min(b, Len(s)))

\* str.startswith
StartsWith(s, p) == Len(s) >= Len(p) /\ SubSeq(s, 1, Len(p)) = p

\* str.strip()
RECURSIVE LStrip(_)
LStrip(s) == IF s # <<>> /\ Head(s) \in WhiteSpace THEN LStrip(Tail(s)) ELSE s
RECURSIVE RStrip(_)
RStrip(s) ==
    IF s # <<>> /\ s[Len(s)] \in WhiteSpace THEN RStrip(SubSeq(s, 1, Len(s) - 1)) ELSE s
Strip(s) == RStrip(LStrip(s))

\* str.split(): the maximal runs of non-whitespace characters
RECURSIVE SplitAcc(_, _, _)
SplitAcc(s, cur, acc) ==
    IF s = <<>> THEN (IF cur = <<>> THEN acc ELSE Append(acc, cur))
    ELSE IF Head(s) \in WhiteSpace
         THEN SplitAcc(Tail(s), <<>>, IF cur = <<>> THEN acc ELSE Append(acc, cur))
         ELSE SplitAcc(Tail(s), Append(cur, Head(s)), acc)
Split(s) == SplitAcc(s, <<>>, <<>>)

\* A digit group of an int or float literal: digits, single underscores between them
DigitGroupOk(s) ==
    /\ s # <<>>
    /\ IsDigit(s[1]) /\ IsDigit(s[Len(s)])
    /\ \A i \in 1..Len(s) : IsDigit(s[i]) \/ s[i] = "_"
    /\ \A i \in 1..(Len(s) - 1) : ~(s[i] = "_" /\ s[i + 1] = "_")

RECURSIVE DigitGroupVal(_, _)
DigitGroupVal(s, acc) ==
    IF s = <<>> THEN acc
    ELSE IF Head(s) = "_" THEN DigitGroupVal(Tail(s), acc)
    ELSE DigitGroupVal(Tail(s), 10 * acc + DigitVal(Head(s)))

DigitCount(s) == Cardinality({i \in 1..Len(s) : IsDigit(s[i])})

HasSign(s) == s # <<>> /\ s[1] \in {"+", "-"}
Unsigned(s) == IF HasSign(s) THEN Tail(s) ELSE s
SignOf(s) == IF s # <<>> /\ s[1] = "-" THEN -1 ELSE 1

\* int(s) of a token: [ok |-> FALSE] stands for ValueError
PyInt(s) ==
    IF DigitGroupOk(Unsigned(s))
    THEN [ok |-> TRUE, val |-> SignOf(s) * DigitGroupVal(Unsigned(s), 0)]
    ELSE [ok |-> FALSE, val |-> 0]

nan_str == <<"n", "a", "n">>
inf_str == <<"i", "n", "f">>
infinity_str == <<"i", "n", "f", "i", "n", "i", "t", "y">>

DotAt(s) == IF \E i \in 1..Len(s) : s[i] = "." THEN CHOOSE i \in 1..Len(s) : s[i] = "." ELSE 0

\* float(s) of a token.  kind "error" stands for ValueError; a number is the
\* integer val divided by 10^exp.  Exponent notation is not part of the model's
\* tokens.
PyFloat(s) ==
    LET body == Unsigned(s)
        low  == Lower(body)
        dot  == DotAt(body)
        ip   == IF dot = 0 THEN body ELSE SubSeq(body, 1, dot - 1)
        fp   == IF dot = 0 THEN <<>> ELSE SubSeq(body, dot + 1, Len(body))
    IN  IF low = nan_str THEN [kind |-> "nan", val |-> 0, exp |-> 0]
        ELSE IF low = inf_str \/ low = infinity_str
             THEN [kind |-> "inf", val |-> SignOf(s), exp |-> 0]
        ELSE IF /\ (ip # <<>> \/ fp # <<>>)
                /\ (ip = <<>> \/ DigitGroupOk(ip))
                /\ (fp = <<>> \/ DigitGroupOk(fp))
             THEN [kind |-> "num",
                   val |-> SignOf(s) * (DigitGroupVal(ip, 0) * Pow10(DigitCount(fp))
                                          + DigitGroupVal(fp, 0)),
                   exp |-> DigitCount(fp)]
             ELSE [kind |-> "error", val |-> 0, exp |-> 0]

\* a > b on floats: every comparison with NaN is false
FloatGT(a, b) ==
    IF a.kind = "nan" \/ b.kind = "nan" THEN FALSE
    ELSE IF a.kind = "inf" THEN a.val = 1 /\ ~(b.kind = "inf" /\ b.val = 1)
    ELSE IF b.kind = "inf" THEN b.val = -1
    ELSE a.val * Pow10(b.exp) > b.val * Pow10(a.exp)

-----------------------------------------------------------------------------
(* datetime *)

IsLeap(y) == (y % 4 = 0 /\ y % 100 # 0) \/ y % 400 = 0
DaysInMonth(y, m) ==
    IF m = 2 THEN (IF IsLeap(y) THEN 29 ELSE 28)
    ELSE IF m \in {4, 6, 9, 11} THEN 30 ELSE 31

\* datetime(year, month, day, hour, minute) does not raise ValueError
DatetimeOk(y, m, d, h, mi) ==
    /\ y >= 1 /\ y <= 9999
    /\ m >= 1 /\ m <= 12
    /\ d >= 1 /\ d <= DaysInMonth(y, m)
    /\ h >= 0 /\ h <= 23
    /\ mi >= 0 /\ mi <= 59

\* datetime < datetime, on <<year, month, day, hour, minute>>
RECURSIVE TupleLess(_, _)
TupleLess(a, b) ==
    IF a = <<>> THEN FALSE
    ELSE IF Head(a) # Head(b) THEN Head(a) < Head(b)
    ELSE TupleLess(Tail(a), Tail(b))

-----------------------------------------------------------------------------
(* Configuration *)

HISTORICAL_YEARS_TO_FETCH == <<2023, 2024>>
RIVM_HISTORICAL_INST_CODE == <<"R", "I", "V", "M", "_", "P", "E", "A", "K">>
RIVM_HIST == <<"R", "I", "V", "M", "_", "H", "I", "S", "T">>
TEMIS_FCST == <<"T", "E", "M", "I", "S", "_", "F", "C", "S", "T">>
yyyymmdd == <<"y", "y", "y", "y", "m", "m", "d", "d">>

-----------------------------------------------------------------------------
(* parse_existing_data_line *)

parse_existing_data_line(line) ==
    LET parts == Split(Strip(line)) IN
    IF Len(parts) >= 4
    THEN LET yyyy_mm_dd    == parts[1]
             hh_mm         == parts[2]
             t_dec_str     == parts[3]
             uvi_str       == parts[4]
             inst_code_str == IF Len(parts) >= 5 THEN parts[5] ELSE RIVM_HIST
             year   == PyInt(Slice(yyyy_mm_dd, 0, 4))
             month  == PyInt(Slice(yyyy_mm_dd, 4, 6))
             day    == PyInt(Slice(yyyy_mm_dd, 6, 8))
             hour   == PyInt(Slice(hh_mm, 0, 2))
             minute == PyInt(Slice(hh_mm, 2, 4))
         IN  IF /\ year.ok /\ month.ok /\ day.ok /\ hour.ok /\ minute.ok
                /\ DatetimeOk(year.val, month.val, day.val, hour.val, minute.val)
                /\ PyFloat(uvi_str).kind # "error"
                /\ PyFloat(t_dec_str).kind # "error"
             THEN [date_obj  |-> <<year.val, month.val, day.val, hour.val, minute.val>>,
                   date_str  |-> yyyy_mm_dd,
                   time_str  |-> hh_mm,
                   t_dec     |-> t_dec_str,
                   uvi_str   |-> uvi_str,
                   inst_code |-> inst_code_str]
             ELSE None
    ELSE None

\* The callers' filter: blank lines, comments and the column header are not parsed
SkippedLine(line) ==
    \/ line = <<>>
    \/ StartsWith(line, <<"#">>)
    \/ StartsWith(Lower(line), yyyymmdd)


-----------------------------------------------------------------------------
(* find_nearest_grid_point *)

\* An array is [ndim, data]: data is a sequence of numbers (ndim 1) or a sequence
\* of rows (ndim 2).  Coordinates are whole numbers of hundredths of a degree.
Array1(xs) == [ndim |-> 1, data |-> xs]
Array2(rows) == [ndim |-> 2, data |-> rows]

\* np.meshgrid(lons_data, lats_data): lon_grid and lat_grid, both of shape
\* (len(lats_data), len(lons_data))
MeshLat(lons, lats) == [i \in 1..Len(lats) |-> [j \in 1..Len(lons) |-> lats[i]]]
MeshLon(lons, lats) == [i \in 1..Len(lats) |-> [j \in 1..Len(lons) |-> lons[j]]]

\* (lat_grid - target_lat)**2 + (lon_grid - target_lon)**2
DistanceSq(lat_grid, lon_grid, target_lat, target_lon) ==
    [i \in 1..Len(lat_grid) |->
        [j \in 1..Len(lat_grid[i]) |->
            (lat_grid[i][j] - target_lat) * (lat_grid[i][j] - target_lat)
              + (lon_grid[i][j] - target_lon) * (lon_grid[i][j] - target_lon)]]

RECURSIVE Flatten(_)
Flatten(rows) == IF rows = <<>> THEN <<>> ELSE Head(rows) \o Flatten(Tail(rows))

\* A scan that keeps the last of several minimal elements
RECURSIVE ArgMinLastFrom(_, _, _)
ArgMinLastFrom(flat, k, best) ==
    IF k > Len(flat) THEN best
    ELSE ArgMinLastFrom(flat, k + 1, IF flat[k] <= flat[best] THEN k ELSE best)
ArgMinLast(flat) == ArgMinLastFrom(flat, 2, 1) - 1

\* np.argmin(a, axis=None): the 0-based flat index of the first minimal element
RECURSIVE ArgMinFrom(_, _, _)
ArgMinFrom(flat, k, best) ==
    IF k > Len(flat) THEN best
    ELSE ArgMinFrom(flat, k + 1, IF flat[k] < flat[best] THEN k ELSE best)
ArgMin(flat) == ArgMinFrom(flat, 2, 1) - 1

\* np.unravel_index(k, shape) for a 2-D shape
UnravelIndex(k, ncols) == <<k \div ncols, k % ncols>>

\* Returns [ok, lat_idx, lon_idx]; ok is FALSE for the ValueError
find_nearest_grid_point(lats_data, lons_data, target_lat, target_lon) ==
    IF (lats_data.ndim = 1 /\ lons_data.ndim = 1) \/ (lats_data.ndim = 2 /\ lons_data.ndim = 2)
    THEN LET lat_grid == IF lats_data.ndim = 1
                         THEN MeshLat(lons_data.data, lats_data.data) ELSE lats_data.data
             lon_grid == IF lats_data.ndim = 1
                         THEN MeshLon(lons_data.data, lats_data.data) ELSE lons_data.data
             distance_sq == DistanceSq(lat_grid, lon_grid, target_lat, target_lon)
             idx == UnravelIndex(ArgMin(Flatten(distance_sq)), Len(distance_sq[1]))
         IN  [ok |-> TRUE, lat_idx |-> idx[1], lon_idx |-> idx[2]]
    ELSE [ok |-> FALSE, lat_idx |-> 0, lon_idx |-> 0]

-----------------------------------------------------------------------------
(* process_netcdf_data *)

TARGET_LAT == 5210
TARGET_LON == 518

\* A sample of the UV field: masked, NaN, infinite, or a finite number, held as
\* the whole number of hundredths that the format ".2f" prints
Masked == [kind |-> "masked", val |-> 0]
NaN == [kind |-> "nan", val |-> 0]
Inf == [kind |-> "inf", val |-> 1]
Num(v) == [kind |-> "num", val |-> v]

IsMasked(x) == x.kind = "masked"
IsNan(x) == x.kind = "nan"
IsFinite(x) == x.kind = "num"

RECURSIVE DigitsOf(_)
DigitsOf(n) ==
    IF n < 10 THEN <<DigitChars[n + 1]>>
    ELSE DigitsOf(n \div 10) \o <<DigitChars[(n % 10) + 1]>>

\* digits, zero-padded on the left to at least width characters
RECURSIVE ZeroPad(_, _)
ZeroPad(digits, width) ==
    IF Len(digits) >= width THEN digits ELSE ZeroPad(<<"0">> \o digits, width)

\* strftime("%Y%m%d") and strftime("%H%M")
StrfYmd(y, m, d) ==
    ZeroPad(DigitsOf(y), 4) \o ZeroPad(DigitsOf(m), 2) \o ZeroPad(DigitsOf(d), 2)
StrfHM(h, mi) == ZeroPad(DigitsOf(h), 2) \o ZeroPad(DigitsOf(mi), 2)

\* f"{float(uvi_val):.2f}"
FormatF2(x) ==
    IF IsNan(x) THEN nan_str
    ELSE IF ~IsFinite(x) THEN (IF x.val < 0 THEN <<"-">> ELSE <<>>) \o inf_str
    ELSE (IF x.val < 0 THEN <<"-">> ELSE <<>>)
            \o DigitsOf((IF x.val < 0 THEN -x.val ELSE x.val) \div 100) \o <<".">>
            \o ZeroPad(DigitsOf((IF x.val < 0 THEN -x.val ELSE x.val) % 100), 2)

\* A test that lets infinite samples through
SkipSampleNotInf(uvi_val) == IsMasked(uvi_val) \/ IsNan(uvi_val)

\* The test that makes the loop "continue"
SkipSample(uvi_val) == IsMasked(uvi_val) \/ IsNan(uvi_val) \/ ~IsFinite(uvi_val)

\* The record appended for the time step of date_int with sample uvi_val
ForecastRecord(date_int, uvi_val) ==
    LET year  == date_int \div 10000
        month == (date_int % 10000) \div 100
        day   == date_int % 100
    IN  [date_obj  |-> <<year, month, day, 12, 0>>,
         date_str  |-> StrfYmd(year, month, day),
         time_str  |-> StrfHM(12, 0),
         t_dec     |-> <<"0", ".", "0">>,
         uvi_str   |-> FormatF2(uvi_val),
         inst_code |-> TEMIS_FCST]

REQUIRED_VARS == {"latitude", "longitude", "uvi_clear", "date"}

\* The loop over the time steps, from step i (1-based) on; acc holds
\* extracted_data.  None stands for the error return: a date that is no calendar
\* date (datetime raises) or a UV field of unexpected rank.
RECURSIVE ExtractTimeSteps(_, _, _, _, _)
ExtractTimeSteps(ds, i, lat_idx, lon_idx, acc) ==
    IF i > Len(ds.date) THEN [none |-> FALSE, list |-> acc]
    ELSE LET date_int == ds.date[i]
             year  == date_int \div 10000
             month == (date_int % 10000) \div 100
             day   == date_int % 100
         IN  IF ~DatetimeOk(year, month, day, 12, 0) THEN None
             ELSE IF ~(ds.uv_ndim = 3 \/ (ds.uv_ndim = 4 /\ Len(ds.uv) = Len(ds.date)))
                  THEN None
             ELSE LET uvi_val == ds.uv[i][1][lat_idx + 1][lon_idx + 1] IN
                  IF SkipSample(uvi_val)
                  THEN ExtractTimeSteps(ds, i + 1, lat_idx, lon_idx, acc)
                  ELSE ExtractTimeSteps(ds, i + 1, lat_idx, lon_idx,
                           Append(acc, ForecastRecord(date_int, uvi_val)))

\* The checks before the grid point is looked up: the file exists, opens as a
\* dataset, has the PRODUCT group and the required variables.  A dataset is
\* [has_product, variables, lats, lons, date, uv_ndim, uv]; uv[t][b] is the grid
\* of band b at time step t, a field of rank 3 having the single band 1.
DatasetUsable(file) ==
    /\ file.exists
    /\ file.content.readable
    /\ file.content.content.has_product
    /\ REQUIRED_VARS \subseteq file.content.content.variables

NotLocated == [ok |-> FALSE, lat_idx |-> 0, lon_idx |-> 0]

\* Assignment in place of extension
ReplacedBy(all, new_data) == new_data

\* all_data_to_process.extend(new_data)
Extended(all, new_data) == all \o new_data

\* "if os.path.exists(f): try: os.remove(f) except OSError: (a warning)": the
\* file is gone when the removal succeeds and stays when OSError is raised
os_remove(file, removed) ==
    IF file.exists /\ removed THEN Absent ELSE file

\* Main script, step 1: download_netcdf_file
DownloadForecast ==
    /\ pc = "forecast"
    /\ IF remote.netcdf.ok
       THEN /\ netcdf_file' = File(remote.netcdf)
            /\ pc' = "locate"
            /\ UNCHANGED <<source_results, ret>>
       ELSE /\ pc' = "historical"
            /\ ret' = None
            /\ source_results' = Append(source_results,
                  [source |-> 0, ok |-> FALSE, records |-> <<>>])
            /\ UNCHANGED netcdf_file
    /\ UNCHANGED <<remote, target, nearest, existing_file, output_file, temp_rivm_files,
                   all_data_to_process, year_idx, data_to_add, all_data_records,
                   processed_keys, run, prev_records>>

\* process_netcdf_data up to the call of find_nearest_grid_point
LocateGridPoint ==
    /\ pc = "locate"
    /\ nearest' = IF DatasetUsable(netcdf_file)
                  THEN find_nearest_grid_point(netcdf_file.content.content.lats,
                                               netcdf_file.content.content.lons,
                                               target[1], target[2])
                  ELSE NotLocated
    /\ pc' = "extract"
    /\ UNCHANGED <<remote, target, existing_file, output_file, netcdf_file,
                   temp_rivm_files, all_data_to_process, year_idx, data_to_add,
                   all_data_records, processed_keys, ret, source_results, run,
                   prev_records>>

\* process_netcdf_data from the loop over the time steps on, then the main
\* script: the records are kept and the removal of the downloaded file is tried
ExtractForecast ==
    /\ pc = "extract"
    /\ LET new_temis_forecasts ==
               IF nearest.ok
               THEN ExtractTimeSteps(netcdf_file.content.content, 1,
                                     nearest.lat_idx, nearest.lon_idx, <<>>)
               ELSE None
           added == IF new_temis_forecasts = None THEN <<>> ELSE new_temis_forecasts.list
       IN  /\ ret' = new_temis_forecasts
           /\ all_data_to_process' = Extended(all_data_to_process, added)
           /\ source_results' = Append(source_results,
                 [source |-> 0, ok |-> new_temis_forecasts # None, records |-> added])
    /\ \E removed \in BOOLEAN : netcdf_file' = os_remove(netcdf_file, removed)
    /\ pc' = "historical"
    /\ UNCHANGED <<remote, target, nearest, existing_file, output_file, temp_rivm_files,
                   year_idx, data_to_add, all_data_records, processed_keys, run,
                   prev_records>>

-----------------------------------------------------------------------------
(* fetch_and_process_rivm_historical_year *)

\* The position of day_key in the dict all_daily_entries (0: not a key).  The dict
\* is held as the sequence of its (key, entries) items in insertion order.
KeyIndex(entries, day_key) ==
    IF \E i \in 1..Len(entries) : entries[i].key = day_key
    THEN CHOOSE i \in 1..Len(entries) : entries[i].key = day_key
    ELSE 0

\* all_daily_entries[day_key].append(parsed_record), creating the list if needed
AddDailyEntry(entries, parsed_record) ==
    LET day_key == parsed_record.date_str
        k == KeyIndex(entries, day_key)
    IN  IF k = 0
        THEN Append(entries, [key |-> day_key, recs |-> <<parsed_record>>])
        ELSE [entries EXCEPT ![k].recs = Append(@, parsed_record)]

\* The loop over the lines of the downloaded file
RECURSIVE ReadDailyEntries(_, _)
ReadDailyEntries(lines, entries) ==
    IF lines = <<>> THEN entries
    ELSE LET line == Strip(Head(lines))
             parsed_record == parse_existing_data_line(line)
         IN  IF SkippedLine(line) \/ parsed_record = None
             THEN ReadDailyEntries(Tail(lines), entries)
             ELSE ReadDailyEntries(Tail(lines), AddDailyEntry(entries, parsed_record))

\* max(hourly_entries_for_day, key=lambda r: float(r['uvi_str'])): the first item,
\* replaced by each later item whose key is greater than the current one's
RECURSIVE PyMaxFrom(_, _)
PyMaxFrom(rest, best) ==
    IF rest = <<>> THEN best
    ELSE IF FloatGT(PyFloat(Head(rest).uvi_str), PyFloat(best.uvi_str))
         THEN PyMaxFrom(Tail(rest), Head(rest))
         ELSE PyMaxFrom(Tail(rest), best)
PeakRecordForDay(hourly_entries_for_day) ==
    PyMaxFrom(Tail(hourly_entries_for_day), Head(hourly_entries_for_day))

HistoricalPeakEntry(peak_record_for_day) ==
    [date_obj  |-> peak_record_for_day.date_obj,
     date_str  |-> peak_record_for_day.date_str,
     time_str  |-> peak_record_for_day.time_str,
     t_dec     |-> peak_record_for_day.t_dec,
     uvi_str   |-> peak_record_for_day.uvi_str,
     inst_code |-> RIVM_HISTORICAL_INST_CODE]

\* The loop over all_daily_entries.items()
HistoricalPeakRecords(entries) ==
    [k \in 1..Len(entries) |-> HistoricalPeakEntry(PeakRecordForDay(entries[k].recs))]

\* What the function returns for a server answer: nothing when the download
\* fails or the file cannot be read, the daily peaks otherwise
RivmYearResult(resp) ==
    IF ~resp.ok THEN <<>>
    ELSE IF ~resp.readable THEN <<>>
    ELSE HistoricalPeakRecords(ReadDailyEntries(resp.content, <<>>))

\* One pass of the loop "for year in HISTORICAL_YEARS_TO_FETCH" of the main script
FetchHistoricalYear ==
    /\ pc = "historical"
    /\ year_idx <= Len(HISTORICAL_YEARS_TO_FETCH)
    /\ LET resp == remote.rivm[year_idx]
           rivm_year_data == RivmYearResult(resp)
       IN  /\ ret' = rivm_year_data
           /\ all_data_to_process' = Extended(all_data_to_process, rivm_year_data)
           /\ \E removed \in BOOLEAN :
                 temp_rivm_files' =
                    IF resp.ok
                    THEN [temp_rivm_files EXCEPT
                             ![year_idx] = os_remove(File(resp), removed)]
                    ELSE temp_rivm_files
           /\ source_results' = Append(source_results,
                 [source |-> HISTORICAL_YEARS_TO_FETCH[year_idx],
                  ok |-> resp.ok /\ resp.readable,
                  records |-> rivm_year_data])
    /\ year_idx' = year_idx + 1
    /\ pc' = IF year_idx = Len(HISTORICAL_YEARS_TO_FETCH) THEN "save" ELSE "historical"
    /\ UNCHANGED <<remote, target, nearest, existing_file, output_file, netcdf_file, data_to_add,
                   all_data_records, processed_keys, run, prev_records>>

-----------------------------------------------------------------------------
(* format_and_save_data *)

FILE_HEADER_LINES ==
    << <<"#", " ", "U", "V", " ", "I", "n", "d", "e", "x", " ", "D", "a", "t", "a", " ",
         "(", "T", "E", "M", "I", "S", " ", "f", "o", "r", "e", "c", "a", "s", "t", " ",
         "&", " ", "R", "I", "V", "M", " ", "h", "i", "s", "t", "o", "r", "i", "c", "a",
         "l", ")">>,
       <<"#", " ", "D", "a", "t", "a", " ", "p", "r", "o", "c", "e", "s", "s", "e", "d",
         " ", "f", "o", "r", " ", "D", "e", " ", "B", "i", "l", "t", " ", "c", "o", "o",
         "r", "d", "i", "n", "a", "t", "e", "s">>,
       <<"#", " ", "F", "o", "r", "m", "a", "t", ":", " ", "Y", "Y", "Y", "Y", "M", "M",
         "D", "D", " ", "h", "h", "m", "m", " ", " ", "T", ".", "d", "e", "c", " ", " ",
         " ", "U", "V", "I", " ", "I", "n", "s", "t", "C", "o", "d", "e">>,
       <<"#", " ", "T", ".", "d", "e", "c", " ", "i", "s", " ", "a", " ", "p", "l", "a",
         "c", "e", "h", "o", "l", "d", "e", "r", " ", "(", "0", ".", "0", " ", "f", "o",
         "r", " ", "f", "o", "r", "e", "c", "a", "s", "t", ")", ",", " ", "I", "n", "s",
         "t", "C", "o", "d", "e", " ", "i", "n", "d", "i", "c", "a", "t", "e", "s", " ",
         "s", "o", "u", "r", "c", "e", ".">>,
       <<"Y", "Y", "Y", "Y", "M", "M", "D", "D", " ", "h", "h", "m", "m", " ", " ", "T",
         ".", "d", "e", "c", " ", " ", " ", "U", "V", "I", " ", "I", "n", "s", "t", "C",
         "o", "d", "e">> >>

\* record_key of a record parsed from the existing file
ExistingRecordKey(parsed_record) ==
    parsed_record.date_str \o parsed_record.time_str \o parsed_record.inst_code

\* A key built with a separator between the fields
SeparatedRecordKey(record) ==
    record.date_str \o <<"_">> \o record.time_str \o <<"_">> \o record.inst_code

\* record_key of a new record
NewRecordKey(record) ==
    record.date_str \o record.time_str \o record.inst_code

\* 1. Load existing data: the loop over the lines of the existing file.  The
\* state is [records, keys]: all_data_records and processed_keys.
RECURSIVE LoadExistingLines(_, _)
LoadExistingLines(lines, st) ==
    IF lines = <<>> THEN st
    ELSE LET line == Strip(Head(lines))
             parsed_record == parse_existing_data_line(line)
         IN  IF SkippedLine(line) \/ parsed_record = None
                \/ ExistingRecordKey(parsed_record) \in st.keys
             THEN LoadExistingLines(Tail(lines), st)
             ELSE LoadExistingLines(Tail(lines),
                     [records |-> Append(st.records, parsed_record),
                      keys    |-> st.keys \cup {ExistingRecordKey(parsed_record)}])

\* 2. Add new data: the loop over data_to_add
RECURSIVE AddNewRecords(_, _)
AddNewRecords(new, st) ==
    IF new = <<>> THEN st
    ELSE IF NewRecordKey(Head(new)) \in st.keys
         THEN AddNewRecords(Tail(new), st)
         ELSE AddNewRecords(Tail(new),
                 [records |-> Append(st.records, Head(new)),
                  keys    |-> st.keys \cup {NewRecordKey(Head(new))}])

\* Insertion that puts a record before the records of equal date_obj
InsertBeforeEqual(sorted, r) ==
    LET n == Cardinality({i \in 1..Len(sorted) : TupleLess(sorted[i].date_obj, r.date_obj)})
    IN  SubSeq(sorted, 1, n) \o <<r>> \o SubSeq(sorted, n + 1, Len(sorted))

\* Insertion into a sorted list after every record whose date_obj is not greater
InsertSorted(sorted, r) ==
    LET n == Cardinality({i \in 1..Len(sorted) : ~TupleLess(r.date_obj, sorted[i].date_obj)})
    IN  SubSeq(sorted, 1, n) \o <<r>> \o SubSeq(sorted, n + 1, Len(sorted))

\* 3. all_data_records.sort(key=lambda r: r['date_obj']): a stable sort
RECURSIVE SortByDateObj(_, _)
SortByDateObj(rest, sorted) ==
    IF rest = <<>> THEN sorted
    ELSE SortByDateObj(Tail(rest), InsertSorted(sorted, Head(rest)))

\* A line with a single space between all fields but none before the source tag
FormatLineNoTagSpace(record) ==
    record.date_str \o <<" ">> \o record.time_str \o <<" ">> \o record.t_dec
        \o <<" ">> \o record.uvi_str \o record.inst_code

\* line_out
FormatLine(record) ==
    record.date_str \o <<" ">> \o record.time_str \o <<" ", " ">> \o record.t_dec
        \o <<" ", " ", " ">> \o record.uvi_str \o <<" ">> \o record.inst_code

OutputLines(records) ==
    FILE_HEADER_LINES \o [i \in 1..Len(records) |-> FormatLine(records[i])]

\* Writing whatever the collection holds, the header alone if it is empty
AlwaysSaved(records, old_file) == File(OutputLines(records))

\* The early return on an empty collection, and 4. the write of the output file
SavedFile(records, old_file) ==
    IF records = <<>> THEN old_file ELSE File(OutputLines(records))

\* The guard of the main script before format_and_save_data
NothingToProcess ==
    all_data_to_process = <<>> /\ ~existing_file.exists

\* Main script: "No new TEMIS data, no RIVM historical data, and no existing data
\* file to process. Exiting."
ExitWithoutSaving ==
    /\ pc = "save"
    /\ NothingToProcess
    /\ pc' = "exit_no_data"
    /\ UNCHANGED <<remote, target, nearest, existing_file, output_file, netcdf_file, temp_rivm_files,
                   all_data_to_process, year_idx, data_to_add, all_data_records,
                   processed_keys, ret, source_results, run, prev_records>>

\* format_and_save_data, part 1
LoadExistingData ==
    /\ pc = "save"
    /\ ~NothingToProcess
    /\ data_to_add' = all_data_to_process
    /\ LET st == IF existing_file.exists
                 THEN LoadExistingLines(existing_file.content, [records |-> <<>>, keys |-> {}])
                 ELSE [records |-> <<>>, keys |-> {}]
       IN  /\ all_data_records' = st.records
           /\ processed_keys' = st.keys
    /\ pc' = "add"
    /\ UNCHANGED <<remote, target, nearest, existing_file, output_file, netcdf_file, temp_rivm_files,
                   all_data_to_process, year_idx, ret, source_results, run, prev_records>>

\* format_and_save_data, part 2
AddNewData ==
    /\ pc = "add"
    /\ LET st == AddNewRecords(data_to_add, [records |-> all_data_records, keys |-> processed_keys])
       IN  /\ all_data_records' = st.records
           /\ processed_keys' = st.keys
    /\ pc' = "sort"
    /\ UNCHANGED <<remote, target, nearest, existing_file, output_file, netcdf_file, temp_rivm_files,
                   all_data_to_process, year_idx, data_to_add, ret, source_results,
                   run, prev_records>>

\* format_and_save_data, parts 3 and 4
SortAndSave ==
    /\ pc = "sort"
    /\ all_data_records' = SortByDateObj(all_data_records, <<>>)
    /\ output_file' = SavedFile(all_data_records', output_file)
    /\ pc' = "finished"
    /\ UNCHANGED <<remote, target, nearest, existing_file, netcdf_file, temp_rivm_files,
                   all_data_to_process, year_idx, data_to_add, processed_keys, ret,
                   source_results, run, prev_records>>

\* The script is started again with the file it wrote as the existing data, and
\* is handed either nothing new or the very records it wrote
RunAgainOnOutput ==
    /\ pc = "finished"
    /\ run = 1
    /\ output_file.exists
    /\ existing_file' = output_file
    /\ prev_records' = all_data_records
    /\ \E new \in {<<>>, all_data_records} : all_data_to_process' = new
    /\ run' = 2
    /\ pc' = "save"
    /\ data_to_add' = <<>>
    /\ all_data_records' = <<>>
    /\ processed_keys' = {}
    /\ UNCHANGED <<remote, target, nearest, output_file, netcdf_file, temp_rivm_files,
                   year_idx, ret,
                   source_results>>

-----------------------------------------------------------------------------
(* Inputs: lines of text *)

RECURSIVE Join(_)
Join(tokens) ==
    IF Len(tokens) = 1 THEN tokens[1]
    ELSE tokens[1] \o <<" ">> \o Join(Tail(tokens))

d0101 == <<"2", "0", "2", "3", "0", "1", "0", "1">>
d0102 == <<"2", "0", "2", "3", "0", "1", "0", "2">>
d0101x == <<"2", "0", "2", "3", "0", "1", "0", "1", "1">>
d010112 == <<"2", "0", "2", "3", "0", "1", "0", "1", "1", "2">>
t0000 == <<"0", "0", "0", "0">>
t0900 == <<"0", "9", "0", "0">>
t1100 == <<"1", "1", "0", "0">>
t1200 == <<"1", "2", "0", "0">>
t1300 == <<"1", "3", "0", "0">>
t1400 == <<"1", "4", "0", "0">>
zero_str == <<"0", ".", "0">>

CommentLine == <<"#", " ", "R", "I", "V", "M">>
HeaderLine == <<"Y", "Y", "Y", "Y", "M", "M", "D", "D", " ", "h", "h", "m", "m">>
MalformedLine == Join(<<d0101, t1200, <<"a", "b", "c">>, <<"3", ".", "0">> >>)

\* Lines a yearly RIVM file may hold: measurements of two days, among them a tie
\* on the peak, a malformed line, a comment, the column header, a date token
\* with a trailing character and a NaN measurement
RivmLines ==
    { Join(<<d0101, t1100, zero_str, <<"2", ".", "1">> >>),
      Join(<<d0101, t1200, zero_str, <<"5", ".", "8">> >>),
      Join(<<d0101, t1300, zero_str, <<"3", ".", "0">> >>),
      Join(<<d0101, t1400, zero_str, <<"5", ".", "8", "0">> >>),
      Join(<<d0102, t1200, zero_str, <<"1", ".", "0">> >>),
      MalformedLine,
      Join(<<d0101x, t1300, zero_str, <<"9", ".", "0">> >>),
      Join(<<d0101, t1300, zero_str, nan_str>>),
      CommentLine,
      HeaderLine }

\* Lines an existing data file may hold: records with and without a source tag,
\* two records of one key, two records of one date and time with different
\* tags, a record that a forecast record collides with, tokens longer than the
\* eight and four characters the parser slices, a comment and a malformed line
ExistingLines ==
    { Join(<<d0101, t1200, zero_str, <<"2", ".", "1">>, <<"A">> >>),
      Join(<<d0101, t1200, zero_str, <<"4", ".", "0">>, <<"A">> >>),
      Join(<<d0101, t1200, zero_str, <<"5", ".", "8">>, <<"0", "0", "A">> >>),
      Join(<<d010112, t0000, zero_str, <<"1", ".", "0">>, <<"A">> >>),
      Join(<<d0102, t0900, <<"1", ".", "5">>, <<"3", ".", "0">> >>),
      Join(<<d0101, t1200, zero_str, <<"2", ".", "5", "0">>, TEMIS_FCST>>),
      CommentLine,
      MalformedLine }

\* New records handed to format_and_save_data: forecast records and a daily peak
NewRecords ==
    { ForecastRecord(20230101, Num(250)),
      ForecastRecord(20230103, Num(1075)),
      HistoricalPeakEntry(parse_existing_data_line(
          Join(<<d0102, t0900, zero_str, <<"6", ".", "2">> >>))) }

SeqsUpTo(S, n) == UNION {[1..k -> S] : k \in 0..n}

-----------------------------------------------------------------------------
(* Inputs: grids and datasets *)

\* Strictly increasing sequences over 0..hi of length 1..n
IncreasingSeqs(hi, n) ==
    {s \in SeqsUpTo(0..hi, n) : s # <<>> /\ \A i \in 1..(Len(s) - 1) : s[i] < s[i + 1]}
NonEmptySeqs(hi, n) == SeqsUpTo(0..hi, n) \ {<<>>}

\* A 2-D coordinate pair whose rows and columns are skewed against the axes
SkewedLat(lons, lats) == [i \in 1..Len(lats) |-> [j \in 1..Len(lons) |-> lats[i] + (j - 1)]]
SkewedLon(lons, lats) == [i \in 1..Len(lats) |-> [j \in 1..Len(lons) |-> lons[j] + (i - 1)]]

AllVars == REQUIRED_VARS \cup {"time"}

Dataset(lats, lons, date, uv_ndim, uv) ==
    [has_product |-> TRUE, variables |-> AllVars, lats |-> lats, lons |-> lons,
     date |-> date, uv_ndim |-> uv_ndim, uv |-> uv]

\* A field that holds the same sample at every grid point of every band
UniformField(lats, lons, n_bands, sample) ==
    [b \in 1..n_bands |-> [i \in 1..Len(lats.data) |->
        [j \in 1..(IF lons.ndim = 1 THEN Len(lons.data) ELSE Len(lons.data[1])) |-> sample]]]

\* The grids find_nearest_grid_point is examined on: 1-D axes, 2-D coordinate
\* arrays, and a 1-D latitude with a 2-D longitude
GridPairs ==
    UNION { { <<Array1(lats), Array1(lons)>>,
              <<Array2(SkewedLat(lons, lats)), Array2(SkewedLon(lons, lats))>>,
              <<Array1(lats), Array2(SkewedLon(lons, lats))>> }
            : lats \in NonEmptySeqs(MaxCoord, MaxAxis),
              lons \in IncreasingSeqs(MaxCoord, MaxAxis) }

\* The grid of the forecast around De Bilt: the nearest point is (0, 1)
BiltLats == Array1(<<5200, 5225>>)
BiltLons == Array1(<<500, 525>>)

\* Samples at the nearest grid point; every other point holds OtherSample
Samples == {Num(250), Num(1075), Masked, NaN, Inf}
OtherSample == Num(100)
BiltGrid(sample) == << <<OtherSample, sample>>, <<OtherSample, OtherSample>> >>
OtherGrid == << <<OtherSample, OtherSample>>, <<OtherSample, OtherSample>> >>

\* Consecutive days from 1 January 2023
Dates(n) == [t \in 1..n |-> 20230100 + t]

\* The datasets the forecast extraction is examined on: a field of rank 3 or 4
\* with any samples at the nearest point, and structurally broken variants
ForecastDatasets ==
    UNION { LET date == Dates(Len(samples))
                uv3  == [t \in 1..Len(samples) |-> <<BiltGrid(samples[t])>>]
                uv4  == [t \in 1..Len(samples) |-> <<BiltGrid(samples[t]), OtherGrid>>]
                good == Dataset(BiltLats, BiltLons, date, 3, uv3)
            IN  { good,
                  Dataset(BiltLats, BiltLons, date, 4, uv4),
                  [good EXCEPT !.uv_ndim = 2],
                  [good EXCEPT !.has_product = FALSE],
                  [good EXCEPT !.variables = AllVars \ {"uvi_clear"}],
                  [good EXCEPT !.lons = Array2(<<BiltLons.data, BiltLons.data>>)],
                  [good EXCEPT !.date = [t \in 1..Len(samples) |-> 20230229 + t]] }
            : samples \in SeqsUpTo(Samples, MaxTimeSteps) }

NoFiles == [i \in 1..Len(HISTORICAL_YEARS_TO_FETCH) |-> Absent]

-----------------------------------------------------------------------------
(* Specifications *)

\* What every specification starts from, but for the inputs it draws
Idle ==
    /\ nearest = NotLocated
    /\ output_file = Absent
    /\ netcdf_file = Absent
    /\ temp_rivm_files = NoFiles
    /\ data_to_add = <<>>
    /\ all_data_records = <<>>
    /\ processed_keys = {}
    /\ ret = None
    /\ source_results = <<>>
    /\ run = 1
    /\ prev_records = <<>>

\* The historical reducer on its own: the first year's file is any sequence of
\* at most MaxYearLines lines, the second year's download fails
InitRivm ==
    /\ pc = "historical"
    /\ \E lines \in SeqsUpTo(RivmLines, MaxYearLines) :
          remote = [netcdf |-> Failed, rivm |-> <<Served(lines), Failed>>]
    /\ target = <<TARGET_LAT, TARGET_LON>>
    /\ existing_file = Absent
    /\ all_data_to_process = <<>>
    /\ year_idx = 1
    /\ Idle

NextRivm == FetchHistoricalYear

SpecRivm == InitRivm /\ [][NextRivm]_vars

\* format_and_save_data on its own, from the main script's step 3 on
InitMerge ==
    /\ pc = "save"
    /\ remote = [netcdf |-> Failed, rivm |-> <<Failed, Failed>>]
    /\ target = <<TARGET_LAT, TARGET_LON>>
    /\ existing_file \in {Absent} \cup {File(ls) : ls \in SeqsUpTo(ExistingLines, MaxExistingLines)}
    /\ all_data_to_process \in SeqsUpTo(NewRecords, MaxNewRecords)
    /\ year_idx = Len(HISTORICAL_YEARS_TO_FETCH) + 1
    /\ Idle

NextMerge ==
    \/ ExitWithoutSaving
    \/ LoadExistingData
    \/ AddNewData
    \/ SortAndSave
    \/ RunAgainOnOutput

SpecMerge == InitMerge /\ [][NextMerge]_vars

\* find_nearest_grid_point on its own: any grid, any target
InitGrid ==
    /\ pc = "locate"
    /\ remote = [netcdf |-> Failed, rivm |-> <<Failed, Failed>>]
    /\ target \in (0..MaxCoord) \X (0..MaxCoord)
    /\ \E g \in GridPairs :
          netcdf_file = File(Served(Dataset(g[1], g[2], Dates(1), 3,
                                 <<UniformField(g[1], g[2], 1, OtherSample)>>)))
    /\ existing_file = Absent
    /\ all_data_to_process = <<>>
    /\ year_idx = 1
    /\ nearest = NotLocated
    /\ output_file = Absent
    /\ temp_rivm_files = NoFiles
    /\ data_to_add = <<>>
    /\ all_data_records = <<>>
    /\ processed_keys = {}
    /\ ret = None
    /\ source_results = <<>>
    /\ run = 1
    /\ prev_records = <<>>

NextGrid == LocateGridPoint

SpecGrid == InitGrid /\ [][NextGrid]_vars

\* The forecast step on its own: any dataset, a failed download, a file that
\* does not open
InitNetcdf ==
    /\ pc = "forecast"
    /\ \E answer \in {Failed, Undecodable} \cup {Served(ds) : ds \in ForecastDatasets} :
          remote = [netcdf |-> answer, rivm |-> <<Failed, Failed>>]
    /\ target = <<TARGET_LAT, TARGET_LON>>
    /\ existing_file = Absent
    /\ all_data_to_process = <<>>
    /\ year_idx = 1
    /\ Idle

NextNetcdf ==
    \/ DownloadForecast
    \/ LocateGridPoint
    \/ ExtractForecast

SpecNetcdf == InitNetcdf /\ [][NextNetcdf]_vars

\* The whole script
MainForecasts ==
    { Failed, Undecodable,
      Served([Dataset(BiltLats, BiltLons, Dates(1), 3, <<<<BiltGrid(NaN)>>>>)
                 EXCEPT !.has_product = FALSE]),
      Served(Dataset(BiltLats, BiltLons, Dates(2), 3,
                     <<<<BiltGrid(Num(250))>>, <<BiltGrid(NaN)>>>>)) }

MainYearFiles ==
    { Failed, Undecodable,
      Served(<<CommentLine>>),
      Served(<<Join(<<d0101, t1100, zero_str, <<"2", ".", "1">> >>),
               Join(<<d0101, t1200, zero_str, <<"5", ".", "8">> >>)>>) }

MainExistingFiles ==
    { Absent,
      File(<<CommentLine>>),
      File(<<Join(<<d0102, t0900, <<"1", ".", "5">>, <<"3", ".", "0">> >>)>>) }

Init ==
    /\ pc = "forecast"
    /\ remote \in [netcdf : MainForecasts, rivm : [1..Len(HISTORICAL_YEARS_TO_FETCH) -> MainYearFiles]]
    /\ target = <<TARGET_LAT, TARGET_LON>>
    /\ existing_file \in MainExistingFiles
    /\ all_data_to_process = <<>>
    /\ year_idx = 1
    /\ Idle

Next ==
    \/ DownloadForecast
    \/ LocateGridPoint
    \/ ExtractForecast
    \/ FetchHistoricalYear
    \/ ExitWithoutSaving
    \/ LoadExistingData
    \/ AddNewData
    \/ SortAndSave

Spec == Init /\ [][Next]_vars

-----------------------------------------------------------------------------
(* Notions the claims are stated in *)

\* The records a caller obtains from a file: its lines, stripped, filtered and
\* parsed, in file order
RECURSIVE ParsedRecords(_)
ParsedRecords(lines) ==
    IF lines = <<>> THEN <<>>
    ELSE LET line == Strip(Head(lines))
             rec == parse_existing_data_line(line)
         IN  IF SkippedLine(line) \/ rec = None THEN ParsedRecords(Tail(lines))
             ELSE <<rec>> \o ParsedRecords(Tail(lines))

FiniteDecimal(token) == PyFloat(token).kind = "num"

CalendarDay(r) == SubSeq(r.date_obj, 1, 3)

\* The calendar days of a record sequence, in order of first appearance
RECURSIVE DaysInOrder(_, _)
DaysInOrder(recs, seen) ==
    IF recs = <<>> THEN <<>>
    ELSE IF CalendarDay(Head(recs)) \in seen THEN DaysInOrder(Tail(recs), seen)
    ELSE <<CalendarDay(Head(recs))>>
            \o DaysInOrder(Tail(recs), seen \cup {CalendarDay(Head(recs))})

RecordsOfDay(recs, day) ==
    LET OnDay(r) == CalendarDay(r) = day IN SelectSeq(recs, OnDay)

\* group[i] has the maximum uvi of the group (no record of the group has a
\* greater one) and is the first of the group to have it
IsPeakOf(group, i) ==
    /\ \A j \in 1..Len(group) :
          ~FloatGT(PyFloat(group[j].uvi_str), PyFloat(group[i].uvi_str))
    /\ \A j \in 1..(i - 1) :
          FloatGT(PyFloat(group[i].uvi_str), PyFloat(group[j].uvi_str))

FirstYearFetched == Len(source_results) >= 1 /\ remote.rivm[1].ok
FirstYearLines == remote.rivm[1].content
FirstYearResult == source_results[1].records

\* C4: the reducer emits exactly one record per calendar day that has a parsed
\* line, in order of first appearance; the record is the first-arrived one with
\* the day's maximum numeric uvi, unchanged but for the source tag RIVM_PEAK.
C4_OnePeakPerCalendarDay ==
    FirstYearFetched =>
        LET recs == ParsedRecords(FirstYearLines)
            days == DaysInOrder(recs, {})
        IN  /\ Len(FirstYearResult) = Len(days)
            /\ \A k \in 1..Len(days) :
                  LET group == RecordsOfDay(recs, days[k]) IN
                  \E i \in 1..Len(group) :
                      /\ IsPeakOf(group, i)
                      /\ FirstYearResult[k] =
                            [group[i] EXCEPT !.inst_code = RIVM_HISTORICAL_INST_CODE]

\* C5: the parser returns a record only for a line of at least 4 tokens whose
\* date and time form a calendar date and whose t_dec and uvi are finite
\* decimal numbers; so no record that reaches the reducer's result carries a
\* NaN or infinite uvi.
C5_ParsedOnlyIfFinite ==
    FirstYearFetched =>
        /\ \A i \in 1..Len(FirstYearLines) :
              LET rec == parse_existing_data_line(FirstYearLines[i]) IN
              rec # None =>
                  /\ Len(Split(FirstYearLines[i])) >= 4
                  /\ DatetimeOk(rec.date_obj[1], rec.date_obj[2], rec.date_obj[3],
                                rec.date_obj[4], rec.date_obj[5])
                  /\ FiniteDecimal(rec.t_dec)
                  /\ FiniteDecimal(rec.uvi_str)
        /\ \A k \in 1..Len(FirstYearResult) : FiniteDecimal(FirstYearResult[k].uvi_str)

-----------------------------------------------------------------------------
(* Claims about format_and_save_data, under SpecMerge *)

Range(f) == {f[i] : i \in DOMAIN f}

\* The identity triple of a record
Triple(r) == <<r.date_str, r.time_str, r.inst_code>>

\* recs without every record whose triple an earlier record has
RECURSIVE FirstOfEachTriple(_, _)
FirstOfEachTriple(recs, seen) ==
    IF recs = <<>> THEN <<>>
    ELSE IF Triple(Head(recs)) \in seen THEN FirstOfEachTriple(Tail(recs), seen)
    ELSE <<Head(recs)>> \o FirstOfEachTriple(Tail(recs), seen \cup {Triple(Head(recs))})

\* The parsed records of the existing data file, in file order
ExistingParsed ==
    IF existing_file.exists THEN ParsedRecords(existing_file.content) ELSE <<>>

\* C1: before sorting, the retained collection is the parsed existing records
\* followed by the new records, without every record whose identity triple
\* (date, time, source_tag) an earlier record of that concatenation has.
C1_RetainedIsFirstOfEachTriple ==
    pc = "sort" =>
        all_data_records = FirstOfEachTriple(ExistingParsed \o data_to_add, {})

SortedByDateTime(recs) ==
    \A i, j \in 1..Len(recs) : i < j => ~TupleLess(recs[j].date_obj, recs[i].date_obj)

PositionIn(recs, r) == CHOOSE i \in 1..Len(recs) : recs[i] = r

\* after holds the records of before, those of equal date and time in the
\* order they have in before
StableReorderingOf(before, after) ==
    /\ Len(after) = Len(before)
    /\ Range(after) = Range(before)
    /\ \A i, j \in 1..Len(after) :
          (i < j /\ after[i].date_obj = after[j].date_obj)
              => PositionIn(before, after[i]) < PositionIn(before, after[j])

\* C2: the sequence written is non-decreasing by (date, time), and records of
\* equal (date, time) keep the order in which they were inserted into the
\* merged collection.
C2_WrittenSortedAndStable ==
    [][(pc = "sort" /\ all_data_records # <<>>) =>
          /\ SortedByDateTime(all_data_records')
          /\ StableReorderingOf(all_data_records, all_data_records')
          /\ output_file' = File(FILE_HEADER_LINES
                \o [i \in 1..Len(all_data_records) |-> FormatLine(all_data_records'[i])])]_vars

\* A file was written whose records arrived out of order and two of which have
\* the same date and time
C2_Witness ==
    /\ pc = "finished" /\ run = 1 /\ output_file.exists
    /\ Len(ExistingParsed) >= 2
    /\ TupleLess(ExistingParsed[2].date_obj, ExistingParsed[1].date_obj)
    /\ \E i, j \in 1..Len(all_data_records) :
          i < j /\ all_data_records[i].date_obj = all_data_records[j].date_obj

KeyAndValues(r) == <<r.date_str, r.time_str, r.inst_code, r.t_dec, r.uvi_str>>

\* C6: a written file, read back through the line filter and the parser and
\* written again, gives the same identity keys with the same t_dec and uvi; no
\* header line becomes a record and no record line is rejected.
C6_RoundTrip ==
    (run = 2 /\ pc = "finished" /\ all_data_to_process = <<>>) =>
        /\ SubSeq(existing_file.content, 1, Len(FILE_HEADER_LINES)) = FILE_HEADER_LINES
        /\ ParsedRecords(FILE_HEADER_LINES) = <<>>
        /\ Len(ExistingParsed) = Len(prev_records)
        /\ Len(existing_file.content) = Len(FILE_HEADER_LINES) + Len(prev_records)
        /\ {KeyAndValues(r) : r \in Range(ExistingParsed)}
              = {KeyAndValues(r) : r \in Range(prev_records)}
        /\ {KeyAndValues(r) : r \in Range(all_data_records)}
              = {KeyAndValues(r) : r \in Range(prev_records)}
        /\ {KeyAndValues(r) : r \in Range(ParsedRecords(output_file.content))}
              = {KeyAndValues(r) : r \in Range(prev_records)}

\* A file with a forecast record, a record with the default tag and another was
\* read back and written again
C6_Witness ==
    /\ run = 2 /\ pc = "finished" /\ all_data_to_process = <<>>
    /\ Len(prev_records) >= 3
    /\ \E r \in Range(prev_records) : r.inst_code = TEMIS_FCST
    /\ \E r \in Range(prev_records) : r.inst_code = RIVM_HIST
    /\ output_file = existing_file

\* C7: no output file is written in a run whose merged collection is empty; the
\* output file is written only when the merged collection holds a record.
C7_NoOutputWhenEmpty ==
    run = 1 =>
        /\ pc \in {"finished", "exit_no_data"} =>
              (output_file.exists <=> (ExistingParsed \o all_data_to_process) # <<>>)
        /\ output_file.exists => (pc = "finished" /\ all_data_records # <<>>)

\* format_and_save_data ran on an existing file without a single record and
\* wrote nothing
C7_Witness ==
    /\ run = 1 /\ pc = "finished"
    /\ existing_file.exists /\ existing_file.content # <<>>
    /\ all_data_records = <<>>
    /\ ~output_file.exists

-----------------------------------------------------------------------------
(* Claim about find_nearest_grid_point, under SpecGrid *)

GridLats == netcdf_file.content.content.lats
GridLons == netcdf_file.content.content.lons
NRows == Len(GridLats.data)
NCols == IF GridLons.ndim = 1 THEN Len(GridLons.data) ELSE Len(GridLons.data[1])
CellLat(i, j) == IF GridLats.ndim = 1 THEN GridLats.data[i] ELSE GridLats.data[i][j]
CellLon(i, j) == IF GridLons.ndim = 1 THEN GridLons.data[j] ELSE GridLons.data[i][j]
CellDistSq(i, j) ==
    (CellLat(i, j) - target[1]) * (CellLat(i, j) - target[1])
      + (CellLon(i, j) - target[2]) * (CellLon(i, j) - target[2])

\* C8: the index returned is that of a cell at minimal squared distance from the
\* target, the first such cell in row-major order; a target that is a grid
\* point gets a cell with the target's coordinates.
C8_NearestFirstInRowMajor ==
    (pc = "extract" /\ GridLats.ndim = GridLons.ndim) =>
        /\ nearest.ok
        /\ LET a == nearest.lat_idx + 1
               b == nearest.lon_idx + 1
           IN  /\ a \in 1..NRows /\ b \in 1..NCols
               /\ \A i \in 1..NRows, j \in 1..NCols :
                     /\ CellDistSq(a, b) <= CellDistSq(i, j)
                     /\ CellDistSq(i, j) = CellDistSq(a, b) => (i > a \/ (i = a /\ j >= b))
               /\ (\E i \in 1..NRows, j \in 1..NCols :
                      CellLat(i, j) = target[1] /\ CellLon(i, j) = target[2])
                    => (CellLat(a, b) = target[1] /\ CellLon(a, b) = target[2])

\* A target with two nearest cells in different rows of a grid given by its axes
C8_Witness ==
    /\ pc = "extract" /\ nearest.ok /\ GridLats.ndim = 1
    /\ \E i \in 1..NRows, j \in 1..NCols :
          /\ i > nearest.lat_idx + 1
          /\ CellDistSq(i, j) = CellDistSq(nearest.lat_idx + 1, nearest.lon_idx + 1)

-----------------------------------------------------------------------------
(* Claim about process_netcdf_data, under SpecNetcdf *)

ServedDataset == remote.netcdf.content

DateOk(date_int) ==
    DatetimeOk(date_int \div 10000, (date_int % 10000) \div 100, date_int % 100, 12, 0)

StructurallyValid(ds) ==
    /\ ds.has_product
    /\ REQUIRED_VARS \subseteq ds.variables
    /\ ds.lats.ndim = ds.lons.ndim
    /\ ds.uv_ndim \in {3, 4}
    /\ \A t \in 1..Len(ds.date) : DateOk(ds.date[t])

SampleAt(ds, t) == ds.uv[t][1][nearest.lat_idx + 1][nearest.lon_idx + 1]

\* The time steps whose sample at the resolved cell is finite, in order
RECURSIVE FiniteSteps(_, _)
FiniteSteps(ds, t) ==
    IF t > Len(ds.date) THEN <<>>
    ELSE (IF SampleAt(ds, t).kind = "num" THEN <<t>> ELSE <<>>) \o FiniteSteps(ds, t + 1)

ForecastDone == pc = "historical" /\ remote.netcdf.ok /\ remote.netcdf.readable

-----------------------------------------------------------------------------
(* Claim about the main script, under Spec *)

Terminated == pc \in {"finished", "exit_no_data"}

RECURSIVE RecordsOfSources(_)
RecordsOfSources(results) ==
    IF results = <<>> THEN <<>> ELSE Head(results).records \o RecordsOfSources(Tail(results))

ForecastAnswerUsable ==
    /\ remote.netcdf.ok /\ remote.netcdf.readable
    /\ StructurallyValid(remote.netcdf.content)

\* Every source was attempted, in order; a source that failed contributed no
\* record, a year that was delivered contributed its daily peaks whatever
\* became of the other sources; the collected records are those of the sources
AllSourcesAttempted ==
    /\ Len(source_results) = 1 + Len(HISTORICAL_YEARS_TO_FETCH)
    /\ source_results[1].source = 0
    /\ source_results[1].ok = ForecastAnswerUsable
    /\ \A i \in 1..Len(source_results) :
          ~source_results[i].ok => source_results[i].records = <<>>
    /\ \A y \in 1..Len(HISTORICAL_YEARS_TO_FETCH) :
          /\ source_results[1 + y].source = HISTORICAL_YEARS_TO_FETCH[y]
          /\ source_results[1 + y].ok = (remote.rivm[y].ok /\ remote.rivm[y].readable)
          /\ source_results[1 + y].ok =>
                source_results[1 + y].records
                    = HistoricalPeakRecords(ReadDailyEntries(remote.rivm[y].content, <<>>))
    /\ all_data_to_process = RecordsOfSources(source_results)

\* format_and_save_data ran on the collected records and the existing data
MergeRanOnAll ==
    /\ pc = "finished"
    /\ data_to_add = all_data_to_process
    /\ Range(all_data_records) \subseteq Range(ExistingParsed \o all_data_to_process)
    /\ \A r \in Range(ExistingParsed \o all_data_to_process) :
          \E q \in Range(all_data_records) : NewRecordKey(q) = NewRecordKey(r)
    /\ output_file.exists <=> all_data_records # <<>>

\* C10 as stated: whatever fails, every source is attempted, a failed source
\* contributes nothing, and the merge step runs on the records of the sources
\* that succeeded and the existing data.
C10_MergeAlwaysRuns ==
    Terminated => (AllSourcesAttempted /\ MergeRanOnAll)

\* C10, amended: the merge step runs unless no source gave a record and there is
\* no existing data file, in which case the script ends without merging.
C10_ErrorIsolation ==
    Terminated =>
        /\ AllSourcesAttempted
        /\ pc = "exit_no_data" <=> (all_data_to_process = <<>> /\ ~existing_file.exists)
        /\ pc = "finished" => MergeRanOnAll

\* The forecast download and the first year failed, the second year gave a
\* record, and it was merged with the existing data
C10_Witness ==
    /\ pc = "finished"
    /\ ~remote.netcdf.ok
    /\ ~remote.rivm[1].ok
    /\ remote.rivm[2].ok
    /\ Len(source_results) = 3
    /\ source_results[3].records # <<>>
    /\ existing_file.exists
    /\ Len(all_data_records) = 2

-----------------------------------------------------------------------------
(* Temporary files *)

\* The years for which fetch_and_process_rivm_historical_year has returned
YearsReturned == {k \in 1..Len(HISTORICAL_YEARS_TO_FETCH) : k < year_idx}

\* The forecast step has ended and no historical year has been fetched yet
ForecastStepEnded == pc = "historical" /\ year_idx = 1

\* C11: whenever fetch_and_process_rivm_historical_year has returned for a year,
\* that year's temporary file does not exist, and the downloaded forecast file
\* does not exist once the forecast step has ended and before the first
\* historical year is fetched.
C11_TempFilesCleanedUp ==
    /\ \A k \in YearsReturned : ~temp_rivm_files[k].exists
    /\ ForecastStepEnded => ~netcdf_file.exists

=============================================================================
